---- MODULE Spec2Model ----
(***************************************************************************)
(* Model of my_falcon/images.py: the image store (ImageStore.save and      *)
(* ImageStore.open), the upload responder Collection.on_post with its      *)
(* validate_image_types hook, and the retrieval responder Item.on_get.     *)
(*                                                                         *)
(* Strings are sequences of one-character strings, so that formatting a    *)
(* name, joining a path and matching the name pattern are computed the way *)
(* the code computes them.  Requests run concurrently, one step per system *)
(* call (open, read+write, close, getsize), as under a threaded WSGI       *)
(* server.  Python 3 semantics: IOError is OSError.                        *)
(***************************************************************************)
EXTENDS Integers, Sequences, FiniteSets, TLC

\* ------------------------------------------------------------------ bounds
\* Number of concurrent POST /images requests.
NumPost == 2
\* Number of concurrent GET /images/{name} requests.
NumGet == 1
\* Longest request body, in bytes.
MaxBody == 3
\* Number of requests that arrive in one run.
MaxRequests == 2
\* Largest read of the write loop (4096 in the source, scaled down).
CHUNK_SIZE_BYTES == 2

Posts == 1..NumPost
Gets == 1..NumGet

None == <<"None">>

\* ------------------------------------------------------------ text helpers
Rep(c, n) == [k \in 1..n |-> c]

HexChars == {"0","1","2","3","4","5","6","7","8","9","a","b","c","d","e","f"}
LowerChars == {"a","b","c","d","e","f","g","h","i","j","k","l","m","n","o",
               "p","q","r","s","t","u","v","w","x","y","z"}
HexDigit == <<"0","1","2","3","4","5","6","7","8","9","a","b","c","d","e","f">>

\* The five fields of the i-th UUID the generator can return (version 4,
\* variant 10xx).
UuidOf(i) ==
    << Rep(HexDigit[i], 8), Rep(HexDigit[i + 8], 4),
       <<"4">> \o Rep(HexDigit[i], 3), <<"a">> \o Rep(HexDigit[i + 4], 3),
       Rep(HexDigit[i + 1], 12) >>

\* The values the generator can return: one for every save that can run.
UUIDS == { UuidOf(i) : i \in 1..NumPost }

\* str(uuid): the five lowercase-hex fields joined by '-'.
UuidStr(u) ==
    u[1] \o <<"-">> \o u[2] \o <<"-">> \o u[3] \o <<"-">> \o u[4] \o <<"-">> \o u[5]

\* ------------------------------------------------------------- media types
ALLOWED_IMAGE_TYPES == {"image/gif", "image/jpeg", "image/png"}

\* Declared content types a client sends.
ContentTypes == ALLOWED_IMAGE_TYPES \cup {"image/bmp", "text/x-unknown"}

\* The extensions the platform's mimetypes table may list first for
\* image/jpeg (it depends on the Python version and the system's mime.types).
JpegExts == { <<".","j","p","g">>, <<".","j","p","e">>, <<".","j","p","e","g">> }

VARIABLES
    disk,       \* the storage directory: path -> bytes visible in the file
    issued,     \* the UUIDs the generator has returned
    fopenLog,   \* calls of the file-open primitive: <<path, mode>>
    jpegExt,    \* what mimetypes.guess_extension('image/jpeg') returns here
    post,       \* the POST requests
    get         \* the GET requests

vars == <<disk, issued, fopenLog, jpegExt, post, get>>

\* ------------------------------------------------------------ pure helpers
\* Mutant of guess_extension: the extension without its leading dot.
guess_extension_NoDot(ct, jext) ==
    CASE ct = "image/png"  -> <<"p","n","g">>
      [] ct = "image/gif"  -> <<"g","i","f">>
      [] ct = "image/jpeg" -> Tail(jext)
      [] ct = "image/bmp"  -> <<"b","m","p">>
      [] OTHER             -> None

\* mimetypes.guess_extension(type): the extension listed for the type, or
\* None for a type the table does not know.
guess_extension(ct, jext) ==
    CASE ct = "image/png"  -> <<".","p","n","g">>
      [] ct = "image/gif"  -> <<".","g","i","f">>
      [] ct = "image/jpeg" -> jext
      [] ct = "image/bmp"  -> <<".","b","m","p">>
      [] OTHER             -> None

\* Mutant of FormatName: the generated UUID is left out of the name.
FormatName_NoUuid(u, ext) ==
    <<"i","m","a","g","e">> \o (IF ext = None THEN <<"N","o","n","e">> ELSE ext)

\* '{uuid}{ext}'.format(uuid=..., ext=...): str() of both, concatenated
\* (str(None) is 'None').
FormatName(u, ext) ==
    UuidStr(u) \o (IF ext = None THEN <<"N","o","n","e">> ELSE ext)

\* os.path.join(a, b) on POSIX.
PathJoin(a, b) ==
    IF Len(b) > 0 /\ b[1] = "/" THEN b
    ELSE IF Len(a) = 0 \/ a[Len(a)] = "/" THEN a \o b
    ELSE a \o <<"/">> \o b

\* The directory the store was constructed with.
storage_path == <<"i","m","g">>

\* _IMAGE_NAME_PATTERN: the items of the regular expression, each a character
\* class with its repetition bounds.
IMAGE_NAME_PATTERN ==
    << [cls |-> HexChars, lo |-> 8, hi |-> 8],  [cls |-> {"-"}, lo |-> 1, hi |-> 1],
       [cls |-> HexChars, lo |-> 4, hi |-> 4],  [cls |-> {"-"}, lo |-> 1, hi |-> 1],
       [cls |-> HexChars, lo |-> 4, hi |-> 4],  [cls |-> {"-"}, lo |-> 1, hi |-> 1],
       [cls |-> HexChars, lo |-> 4, hi |-> 4],  [cls |-> {"-"}, lo |-> 1, hi |-> 1],
       [cls |-> HexChars, lo |-> 12, hi |-> 12], [cls |-> {"."}, lo |-> 1, hi |-> 1],
       [cls |-> LowerChars, lo |-> 2, hi |-> 4] >>

\* '$' of Python's re without MULTILINE: the end of the string, or just
\* before a newline that is the last character of the string.
EndAnchor(s, pos) ==
    \/ pos = Len(s) + 1
    \/ pos = Len(s) /\ s[pos] = "\n"

\* pattern.match(s): the items matched one after the other from the start of
\* the string (with backtracking over the repetition counts), then '$'.
RECURSIVE MatchFrom(_, _, _)
MatchFrom(s, pos, item) ==
    IF item > Len(IMAGE_NAME_PATTERN) THEN EndAnchor(s, pos)
    ELSE LET it == IMAGE_NAME_PATTERN[item] IN
         \E k \in it.lo..it.hi :
            /\ pos + k - 1 <= Len(s)
            /\ \A j \in pos..(pos + k - 1) : s[j] \in it.cls
            /\ MatchFrom(s, pos + k, item + 1)

PatternMatch(s) == MatchFrom(s, 1, 1)

\* str.lower() on the characters the model uses.
LowerChar(c) ==
    CASE c = "P" -> "p" [] c = "N" -> "n" [] c = "G" -> "g" [] c = "A" -> "a"
      [] OTHER -> c

\* posixpath.splitext(name)[1]: from the last '.' of the last path component
\* (none when that component has no dot after its first character).
SplitExt(s) ==
    LET slashes == { i \in 1..Len(s) : s[i] = "/" }
        base    == IF slashes = {} THEN 1
                   ELSE (CHOOSE i \in slashes : \A j \in slashes : j <= i) + 1
        dots    == { i \in (base + 1)..Len(s) :
                        s[i] = "." /\ \E j \in base..(i - 1) : s[j] # "." }
    IN IF dots = {} THEN <<>>
       ELSE SubSeq(s, CHOOSE i \in dots : \A j \in dots : j <= i, Len(s))

\* mimetypes.guess_type(name)[0]: the type of the lowercased extension.
guess_type(s) ==
    LET e == [i \in 1..Len(SplitExt(s)) |-> LowerChar(SplitExt(s)[i])] IN
    CASE e = <<".","p","n","g">> -> "image/png"
      [] e = <<".","g","i","f">> -> "image/gif"
      [] e \in JpegExts          -> "image/jpeg"
      [] e = <<".","b","m","p">> -> "image/bmp"
      [] OTHER                   -> "None"

\* ------------------------------------------------------------------ inputs
\* The i-th byte of the body of POST request r (distinct bytes, so that a
\* dropped, repeated or reordered chunk shows).
Byte(r, i) == 10 * r + i

\* The first n bytes request r's stream delivers.
Body(r, n) == [i \in 1..n |-> Byte(r, i)]

\* The requests that have arrived.
Arrived == Cardinality({r \in Posts : post[r].pc # "idle"})
           + Cardinality({g \in Gets : get[g].pc # "idle"})

NoLen == 0 - 1

IdlePost ==
    [pc |-> "idle", content_type |-> "None", pos |-> 0,
     name |-> None, buf |-> <<>>, status |-> 0, location |-> None]

IdleGet ==
    [pc |-> "idle", name |-> None, content_type |-> "None", err |-> "None",
     stream |-> None, stream_len |-> NoLen, status |-> 0]

Init ==
    /\ disk = <<>>
    /\ issued = {}
    /\ fopenLog = {}
    /\ jpegExt \in JpegExts
    /\ post = [r \in Posts |-> IdlePost]
    /\ get = [g \in Gets |-> IdleGet]

\* ------------------------------------------------------- file system model
Exists(d, path) == path \in DOMAIN d

\* Opening a file: 'wb' creates it or truncates it to nothing, 'rb' leaves
\* the directory as it is.
Fopen(d, path, mode) ==
    IF mode = "wb"
    THEN [q \in (DOMAIN d) \cup {path} |-> IF q = path THEN <<>> ELSE d[q]]
    ELSE d

\* Bytes reaching the file behind `path`.
Flush(d, path, bytes) == [d EXCEPT ![path] = @ \o bytes]

\* os.path.getsize(path).
getsize(d, path) == Len(d[path])

\* --------------------------------------------------------------- POST side
\* Mutant of validate_image_types: every image type is let through.
validate_image_types_AnyImage(ct) == ct \in ALLOWED_IMAGE_TYPES \cup {"image/bmp"}

\* validate_image_types: TRUE when the hook lets the request through.
validate_image_types(ct) == ct \in ALLOWED_IMAGE_TYPES

\* uuid.uuid4(), the default generator: a random 122-bit value, modelled by
\* its contract, a value it has not returned before.
uuid4(given) == UUIDS \ given

\* The path ImageStore.save writes.
SavePath(name) == PathJoin(storage_path, name)

\* The mode ImageStore.save opens its file with.
SAVE_MODE == "wb"

\* Mutant of LoopEnds: a read shorter than asked for is taken for the end.
LoopEnds_ShortRead(chunk) == Len(chunk) < CHUNK_SIZE_BYTES

\* 'if not chunk: break'.
LoopEnds(chunk) == Len(chunk) = 0

\* Mutant of FileClose: save returns without closing (or flushing) the file.
FileClose_NoFlush(d, path, buf) == d

\* Leaving the 'with' block closes the file: what is still buffered reaches it.
FileClose(d, path, buf) == Flush(d, path, buf)

\* on_post after save returned: '/images/' + name.
Location(name) == <<"/","i","m","a","g","e","s","/">> \o name

\* POST /images arrives: the hook runs; when it passes, on_post calls save,
\* which derives the name and opens the file.  The open may raise (no
\* permission, disk full); the exception leaves on_post (status 500).
PostRequest(r) ==
    /\ post[r].pc = "idle"
    /\ Arrived < MaxRequests
    /\ \E ct \in ContentTypes :
        IF ~validate_image_types(ct)
        THEN /\ post' = [post EXCEPT ![r] =
                    [@ EXCEPT !.pc = "done", !.content_type = ct, !.status = 400]]
             /\ UNCHANGED <<disk, issued, fopenLog>>
        ELSE \E u \in uuid4(issued), ok \in BOOLEAN :
             LET name == FormatName(u, guess_extension(ct, jpegExt))
                 path == SavePath(name)
             IN /\ issued' = issued \cup {u}
                /\ fopenLog' = fopenLog \cup
                       {[by |-> <<"post", r>>, path |-> path, mode |-> SAVE_MODE]}
                /\ IF ok
                   THEN /\ disk' = Fopen(disk, path, SAVE_MODE)
                        /\ post' = [post EXCEPT ![r] =
                               [@ EXCEPT !.pc = "loop", !.content_type = ct,
                                         !.name = name]]
                   ELSE /\ disk' = disk
                        /\ post' = [post EXCEPT ![r] =
                               [@ EXCEPT !.pc = "done", !.content_type = ct,
                                         !.name = name, !.status = 500]]
    /\ UNCHANGED <<jpegExt, get>>

\* One turn of the write loop: a read of at most CHUNK_SIZE_BYTES bytes (the
\* stream delivers between one byte and that many, or nothing at its end,
\* which comes after at most MaxBody bytes), then either the break, the close
\* and the return to on_post, or the write of the chunk.  The file object
\* buffers: a written chunk reaches the file at once or stays buffered until
\* a later write or the close.  A write that raises leaves the 'with' block,
\* which closes the file, and the exception leaves on_post (status 500).
SaveChunk(r) ==
    /\ post[r].pc = "loop"
    /\ LET p    == post[r]
           left == MaxBody - p.pos
           path == SavePath(p.name)
       IN \E k \in 0..CHUNK_SIZE_BYTES, ok \in BOOLEAN, flush \in BOOLEAN :
            /\ k <= left
            /\ LET chunk == SubSeq(Body(r, p.pos + k), p.pos + 1, p.pos + k) IN
               IF LoopEnds(chunk)
               THEN /\ ok /\ flush
                    /\ disk' = FileClose(disk, path, p.buf)
                    /\ post' = [post EXCEPT ![r] =
                           [@ EXCEPT !.pc = "done", !.pos = p.pos + k, !.buf = <<>>,
                                     !.status = 201,
                                     !.location = Location(p.name)]]
               ELSE IF ok
               THEN /\ disk' = IF flush THEN Flush(disk, path, p.buf \o chunk)
                                        ELSE disk
                    /\ post' = [post EXCEPT ![r] =
                           [@ EXCEPT !.pos = p.pos + k,
                                     !.buf = IF flush THEN <<>> ELSE p.buf \o chunk]]
               ELSE /\ flush
                    /\ disk' = FileClose(disk, path, p.buf)
                    /\ post' = [post EXCEPT ![r] =
                           [@ EXCEPT !.pc = "done", !.pos = p.pos + k, !.buf = <<>>,
                                     !.status = 500]]
    /\ UNCHANGED <<issued, fopenLog, jpegExt, get>>

\* ---------------------------------------------------------------- GET side
\* Names the store hands out for the accepted types.
StoreNames ==
    { FormatName(u, e) : u \in UUIDS,
                         e \in {<<".","p","n","g">>, <<".","g","i","f">>} \cup JpegExts }

BaseUuid == UuidStr(UuidOf(1))
BaseName == BaseUuid \o <<".","p","n","g">>

\* s with its i-th character replaced by c.
Replace(s, i, c) == [s EXCEPT ![i] = c]

\* Names that deviate from a store name: a path prefix, extra characters
\* before or after, a bad extension, a bad character in the UUID, a missing
\* separator.
DeviantNames ==
    { <<".",".","/",".",".","/","e","t","c","/","p","a","s","s","w","d",".","p","n","g">>,
      <<".",".","/">> \o BaseName,
      <<"/">> \o BaseName,
      <<"a">> \o BaseName,
      BaseName \o <<"\n">>,
      BaseName \o <<"x">>,
      BaseName \o <<"/">>,
      BaseName \o <<"\n","\n">>,
      BaseName \o <<"\n","x">>,
      BaseName \o <<"/",".",".","/","x">>,
      BaseUuid,
      BaseUuid \o <<".">>,
      BaseUuid \o <<".","p">>,
      BaseUuid \o <<".","j","p","e","g","s">>,
      BaseUuid \o <<".","P","N","G">>,
      BaseUuid \o <<".","p","1","g">>,
      BaseUuid \o <<"N","o","n","e">>,
      BaseUuid \o <<"p","n","g">>,
      BaseUuid \o <<"x","p","n","g">>,
      Replace(BaseName, 1, "g"),
      Replace(BaseName, 1, "A"),
      Replace(BaseName, 9, "a"),
      Replace(BaseName, 9, "/"),
      Replace(BaseName, 36, "/"),
      SubSeq(BaseName, 2, Len(BaseName)),
      <<>> }

ClientNames == StoreNames \cup DeviantNames

\* Mutant of OpenPath: the name is opened without the storage directory.
OpenPath_NoJoin(name) == name

\* The path ImageStore.open reads.
OpenPath(name) == PathJoin(storage_path, name)

\* Mutant of OPEN_MODE: open uses the mode save uses.
OPEN_MODE_Write == "wb"

\* The mode ImageStore.open opens its file with.
OPEN_MODE == "rb"

\* What the file-open primitive raises, "None" when it returns a file.
FopenError(d, path, mode, denied) ==
    IF mode = "rb" /\ ~Exists(d, path) THEN "FileNotFoundError"
    ELSE IF denied THEN "PermissionError"
    ELSE "None"

\* Mutant of CaughtByOnGet: only the missing file (and open's own IOError)
\* is caught.
CaughtByOnGet_MissingOnly(e) == e \in {"IOError", "FileNotFoundError"}

\* 'except IOError' of on_get: in Python 3 IOError is OSError and the file
\* errors are its subclasses.
CaughtByOnGet(e) == e \in {"IOError", "FileNotFoundError", "PermissionError", "OSError"}

\* The response of on_get when an exception e leaves ImageStore.open:
\* HTTPNotFound when the except clause catches it, else the error escapes.
OnGetFailure(rec, e) ==
    [rec EXCEPT !.pc = "done", !.err = e,
                !.status = IF CaughtByOnGet(e) THEN 404 ELSE 500]

\* GET /images/{name} arrives: on_get sets the content type and calls open,
\* which validates the name and opens the file.
GetRequest(g) ==
    /\ get[g].pc = "idle"
    /\ Arrived < MaxRequests
    /\ \E name \in ClientNames, denied \in BOOLEAN :
        LET rec  == [get[g] EXCEPT !.name = name, !.content_type = guess_type(name)]
            path == OpenPath(name)
            e    == FopenError(disk, path, OPEN_MODE, denied)
        IN IF ~PatternMatch(name)
           THEN /\ ~denied
                /\ get' = [get EXCEPT ![g] = OnGetFailure(rec, "IOError")]
                /\ UNCHANGED <<disk, fopenLog>>
           ELSE /\ fopenLog' = fopenLog \cup
                       {[by |-> <<"get", g>>, path |-> path, mode |-> OPEN_MODE]}
                /\ IF e = "None"
                   THEN /\ disk' = Fopen(disk, path, OPEN_MODE)
                        /\ get' = [get EXCEPT ![g] = [rec EXCEPT !.pc = "opened"]]
                   ELSE /\ disk' = disk
                        /\ get' = [get EXCEPT ![g] = OnGetFailure(rec, e)]
    /\ UNCHANGED <<issued, jpegExt, post>>

\* open measures the file and returns; on_get hands the stream and its
\* length to the response.
GetSize(g) ==
    /\ get[g].pc = "opened"
    /\ LET path == OpenPath(get[g].name) IN
       \E ok \in BOOLEAN :
          IF ok /\ Exists(disk, path)
          THEN get' = [get EXCEPT ![g] =
                   [@ EXCEPT !.pc = "done", !.stream = path,
                             !.stream_len = getsize(disk, path), !.status = 200]]
          ELSE get' = [get EXCEPT ![g] = OnGetFailure(@, "OSError")]
    /\ UNCHANGED <<disk, issued, fopenLog, jpegExt, post>>

\* ----------------------------------------------------------- specification
Next ==
    \/ \E r \in Posts : PostRequest(r)
    \/ \E r \in Posts : SaveChunk(r)
    \/ \E g \in Gets : GetRequest(g)
    \/ \E g \in Gets : GetSize(g)

Spec == Init /\ [][Next]_vars

\* ------------------------------------------------------- claim vocabulary
\* The name format of the specification: five lowercase-hex groups of
\* lengths 8-4-4-4-12 joined by '-', then '.', then 2 to 4 lowercase letters,
\* and nothing else.
StrictName(n) ==
    /\ Len(n) \in 39..41
    /\ \A i \in 1..36 :
          IF i \in {9, 14, 19, 24} THEN n[i] = "-" ELSE n[i] \in HexChars
    /\ n[37] = "."
    /\ \A i \in 38..Len(n) : n[i] \in LowerChars

\* The calls of the file-open primitive a request made.
FopenBy(who) == { e \in fopenLog : e.by = who }

\* The extensions conventionally used for a content type.
ConventionalExts(ct) ==
    CASE ct = "image/png"  -> { <<".","p","n","g">> }
      [] ct = "image/gif"  -> { <<".","g","i","f">> }
      [] ct = "image/jpeg" -> JpegExts
      [] OTHER             -> {}

\* save has returned a name to on_post.
Returned(r) == post[r].pc = "done" /\ post[r].status = 201

\* save's open of its file succeeded (a failed open leaves the stream unread,
\* a failed write comes after a non-empty read).
OpenedFile(r) ==
    \/ post[r].pc = "loop"
    \/ Returned(r)
    \/ post[r].pc = "done" /\ post[r].status = 500 /\ post[r].pos > 0

\* ------------------------------------------------------------------ C1
\* C1: every client-supplied name that is not exactly a strict name makes
\* open fail with IOError, and the file-open primitive is never called for it.
C1_InvalidNameNeverOpened ==
    \A g \in Gets :
        (get[g].pc # "idle" /\ ~StrictName(get[g].name)) =>
            /\ get[g].pc = "done"
            /\ get[g].err = "IOError"
            /\ FopenBy(<<"get", g>>) = {}

\* ------------------------------------------------------------------ C2
\* C2: round trip.  When open(name) is called after save(s, 'image/png')
\* returned name, the name passes validation and the file is found, and
\* (the file system raising no error) the returned stream reads the bytes of
\* s and the returned length is the number of bytes of s.
C2_RoundTrip ==
    [][ \A r \in Posts, g \in Gets :
          ( /\ Returned(r)
            /\ post[r].content_type = "image/png"
            /\ get'[g] # get[g]
            /\ get'[g].name = post[r].name )
          =>
          /\ get'[g].err \notin {"IOError", "FileNotFoundError"}
          /\ get'[g].status = 200 =>
                /\ Exists(disk', get'[g].stream)
                /\ disk'[get'[g].stream] = Body(r, post[r].pos)
                /\ get'[g].stream_len = post[r].pos ]_vars

C2_Witness ==
    \E r \in Posts, g \in Gets :
        /\ Returned(r) /\ post[r].content_type = "image/png" /\ post[r].pos = MaxBody
        /\ get[g].name = post[r].name /\ get[g].status = 200
        /\ get[g].stream_len = MaxBody
        /\ disk[get[g].stream] = Body(r, MaxBody)

\* ------------------------------------------------------------------ C3
\* C3: a POST whose declared content type is not allowed ends with 400
\* before the responder runs: no name is generated, no byte of the stream is
\* read, the file-open primitive is not called and the stored files are
\* unchanged.
C3_RejectedState ==
    \A r \in Posts :
        (post[r].pc # "idle" /\ post[r].content_type \notin ALLOWED_IMAGE_TYPES) =>
            /\ post[r].pc = "done"
            /\ post[r].status = 400
            /\ post[r].name = None
            /\ post[r].pos = 0
            /\ post[r].location = None
            /\ FopenBy(<<"post", r>>) = {}

C3_RejectedStep ==
    \A r \in Posts :
        (post'[r] # post[r] /\ post'[r].content_type \notin ALLOWED_IMAGE_TYPES) =>
            /\ disk' = disk
            /\ issued' = issued

C3_Rejected == [](C3_RejectedState) /\ [][C3_RejectedStep]_vars

C3_Witness ==
    \E r \in Posts :
        /\ post[r].content_type = "image/bmp" /\ post[r].status = 400
        /\ \E q \in Posts : Returned(q)

\* ------------------------------------------------------------------ C4
\* C4: a save opens at most one file, a name save has returned always names
\* a file holding the complete upload, and a save that failed returned no
\* name.
C4_CompleteBeforeReturn ==
    \A r \in Posts :
        /\ Cardinality(FopenBy(<<"post", r>>)) <= 1
        /\ Returned(r) =>
              /\ Exists(disk, SavePath(post[r].name))
              /\ disk[SavePath(post[r].name)] = Body(r, post[r].pos)
        /\ post[r].status = 500 => post[r].location = None

C4_Witness ==
    \E r \in Posts :
        /\ Returned(r) /\ post[r].pos = MaxBody
        /\ post[r].location = Location(post[r].name)
        /\ \E q \in Posts : post[q].status = 500 /\ post[q].pos > 0

\* ------------------------------------------------------------------ C5
\* C5: open never exposes a partial write of a save in progress: the length
\* a successful open(name) returned is the length of the whole upload saved
\* under that name.
C5_NoPartialExposure ==
    \A r \in Posts, g \in Gets :
        (Returned(r) /\ get[g].status = 200 /\ get[g].name = post[r].name) =>
            get[g].stream_len = post[r].pos

\* ------------------------------------------------------------------ C6
\* C6: every failure of open (invalid name, missing file, an error opening
\* or measuring the file) gives the same response from on_get: 404, no
\* stream, no length; no error escapes as anything else.
C6_UniformNotFound ==
    \A g \in Gets :
        /\ get[g].status \in {0, 200, 404}
        /\ (get[g].pc = "done" /\ get[g].err # "None") =>
              /\ get[g].status = 404
              /\ get[g].stream = None
              /\ get[g].stream_len = NoLen
        /\ get[g].status = 200 => get[g].err = "None"

C6_Witness ==
    \E g \in Gets :
        /\ StrictName(get[g].name)
        /\ get[g].err = "OSError"
        /\ get[g].status = 404 /\ get[g].stream = None

\* ------------------------------------------------------------------ C7
\* C7: for an accepted content type the name save generates is the UUID's
\* string followed by the extension conventional for the type, and open's
\* validation accepts it.
C7_NameAccepted ==
    \A r \in Posts :
        (post[r].name # None /\ post[r].content_type \in ALLOWED_IMAGE_TYPES) =>
            /\ \E u \in issued, e \in ConventionalExts(post[r].content_type) :
                  post[r].name = UuidStr(u) \o e
            /\ StrictName(post[r].name)
            /\ PatternMatch(post[r].name)

C7_Witness ==
    \E r \in Posts :
        /\ post[r].content_type = "image/jpeg"
        /\ Returned(r)
        /\ Len(post[r].name) = 41
        /\ PatternMatch(post[r].name)

\* ------------------------------------------------------------------ C8
\* C8: whatever the sizes of the reads, the bytes written (in the file or
\* still buffered) are exactly the bytes read so far, in order, and when the
\* loop has ended at the empty read the file holds exactly the upload.
C8_ChunksInOrder ==
    \A r \in Posts :
        /\ post[r].pc = "loop" =>
              /\ Exists(disk, SavePath(post[r].name))
              /\ disk[SavePath(post[r].name)] \o post[r].buf = Body(r, post[r].pos)
        /\ Returned(r) =>
              /\ post[r].buf = <<>>
              /\ Len(disk[SavePath(post[r].name)]) = post[r].pos
              /\ \A i \in 1..post[r].pos :
                    disk[SavePath(post[r].name)][i] = Byte(r, i)

C8_Witness ==
    \E r \in Posts :
        /\ Returned(r) /\ post[r].pos = MaxBody /\ MaxBody > CHUNK_SIZE_BYTES
        /\ Len(disk[SavePath(post[r].name)]) = MaxBody

\* ------------------------------------------------------------------ C9
\* C9: open does not change the store: a step of a GET request leaves every
\* file and the set of files as they were, and what a successful open
\* returns is the file as stored.
C9_ReadsDoNotMutate ==
    [][ \A g \in Gets :
          get'[g] # get[g] =>
             /\ disk' = disk
             /\ get'[g].status = 200 =>
                   /\ Exists(disk, get'[g].stream)
                   /\ get'[g].stream_len = Len(disk[get'[g].stream]) ]_vars

C9_Witness ==
    \E g \in Gets, r \in Posts :
        /\ get[g].status = 200 /\ get[g].stream_len > 0
        /\ Returned(r) /\ get[g].stream = SavePath(post[r].name)
        /\ disk[get[g].stream] = Body(r, post[r].pos)

\* ------------------------------------------------------------------ C10
\* C10 as stated: once every save call has ended, the names returned are
\* pairwise distinct, there are as many stored files as saves started, and
\* every returned name's file holds its own upload.
C10_OneFilePerSaveStarted ==
    (\A r \in Posts : post[r].pc \in {"idle", "done"}) =>
        /\ \A r1, r2 \in Posts :
              (r1 # r2 /\ Returned(r1) /\ Returned(r2)) => post[r1].name # post[r2].name
        /\ Cardinality(DOMAIN disk) = Cardinality({r \in Posts : post[r].name # None})
        /\ \A r \in Posts :
              Returned(r) => disk[SavePath(post[r].name)] = Body(r, post[r].pos)

\* C10 amended: the names generated are pairwise distinct, there are as many
\* stored files as saves whose open of the file succeeded (a save whose open
\* fails creates none), every file holds bytes of its own save only, and a
\* step of one save leaves the files of the other saves as they were.
C10_OwnFileState ==
    /\ \A r1, r2 \in Posts :
          (r1 # r2 /\ post[r1].name # None /\ post[r2].name # None)
              => post[r1].name # post[r2].name
    /\ Cardinality(DOMAIN disk) = Cardinality({r \in Posts : OpenedFile(r)})
    /\ \A r \in Posts :
          OpenedFile(r) =>
              /\ Exists(disk, SavePath(post[r].name))
              /\ LET f == disk[SavePath(post[r].name)] IN
                 /\ Len(f) <= post[r].pos
                 /\ f = Body(r, Len(f))

C10_OwnFileStep ==
    \A r, q \in Posts :
        (post'[r] # post[r] /\ q # r /\ OpenedFile(q)) =>
            /\ Exists(disk', SavePath(post[q].name))
            /\ disk'[SavePath(post[q].name)] = disk[SavePath(post[q].name)]

C10_OwnFile == [](C10_OwnFileState) /\ [][C10_OwnFileStep]_vars

C10_Witness ==
    \E r1, r2 \in Posts :
        /\ r1 # r2 /\ Returned(r1) /\ Returned(r2)
        /\ post[r1].content_type = post[r2].content_type
        /\ post[r1].pos > 0 /\ post[r2].pos > 0
        /\ post[r1].name # post[r2].name
        /\ Cardinality(DOMAIN disk) = 2
====
